---- MODULE Spec2Model ----
(***************************************************************************)
(* Model of the TradeBricks backtest engine (backend backtestService):     *)
(* runBacktest, evaluateBlock and the indicator helpers.                   *)
(*                                                                         *)
(* Numbers are JavaScript numbers modelled as exact rationals n/d (d > 0,  *)
(* lowest terms) extended with the IEEE specials: d = 0 encodes +Infinity  *)
(* (n = 1), -Infinity (n = -1) and NaN (n = 0).  Rounding is not modelled. *)
(* A value is a record [t, n, d] with t in "num", "bool", "undef".         *)
(*                                                                         *)
(* Spec is a run of runBacktest over a fetched series.  ServiceSpec is the *)
(* request path in front of it: the backtest controller with the in-memory *)
(* strategy store, and fetchHistoricalData of marketDataService.           *)
(* IndicatorSpec applies the indicator helpers to series and periods.      *)
(***************************************************************************)
EXTENDS Integers, Sequences, FiniteSets, TLC

VARIABLES pc, strategy, marketData, options, entryBlocks, exitBlocks,
          i, context, indicatorCache, capital, position, buyPrice, trades,
          evalLog, result,
          inMemoryDB, API_KEY, req, fetching, responses, res,
          call

\* State of a run of runBacktest.
engineVars == <<pc, strategy, marketData, options, entryBlocks, exitBlocks,
                i, context, indicatorCache, capital, position, buyPrice, trades,
                evalLog, result>>

\* State of the request path: the stored strategy, the environment's API key,
\* the request being served, the fetch in flight, the requests served and
\* the response to the last of them.
serviceVars == <<inMemoryDB, API_KEY, req, fetching, responses, res>>

\* call is the last application of an indicator helper: its arguments and
\* what it returned.
vars == <<engineVars, serviceVars, call>>

----------------------------------------------------------------------------
(* Bounds of the model *)

MaxBars == 4

MaxBlocks == 2

MaxStack == 4

MaxRequests == 3

----------------------------------------------------------------------------
(* JavaScript numbers and values *)

Abs(x) == IF x < 0 THEN -x ELSE x

RECURSIVE Gcd(_, _)
Gcd(a, b) == IF b = 0 THEN a ELSE Gcd(b, a % b)

Sign(x) == IF x > 0 THEN 1 ELSE IF x < 0 THEN -1 ELSE 0

Norm(n, d) ==
    IF d = 0 THEN [t |-> "num", n |-> Sign(n), d |-> 0]
    ELSE LET s == Sign(d)
             g == Gcd(Abs(n), Abs(d))
         IN  [t |-> "num", n |-> (s * n) \div g, d |-> (s * d) \div g]

Num(k) == [t |-> "num", n |-> k, d |-> 1]

NaN == [t |-> "num", n |-> 0, d |-> 0]

Infinity == [t |-> "num", n |-> 1, d |-> 0]

Bool(b) == [t |-> "bool", n |-> IF b THEN 1 ELSE 0, d |-> 1]

Undefined == [t |-> "undef", n |-> 0, d |-> 1]

IsNumber(v) == v.t = "num"

IsNaN(v) == v.t = "num" /\ v.n = 0 /\ v.d = 0

\* The test of line 328 accepting every truthy result.
IsTrue_AnyTruthy(v) ==
    \/ v.t = "bool" /\ v.n = 1
    \/ v.t = "num" /\ v.n # 0

IsTrue(v) == v.t = "bool" /\ v.n = 1

Truthy(v) ==
    \/ v.t = "bool" /\ v.n = 1
    \/ v.t = "num" /\ v.n # 0

Mul(a, b) == Norm(a.n * b.n, a.d * b.d)

Recip(a) == IF a.n < 0 THEN Norm(-a.d, -a.n) ELSE Norm(a.d, a.n)

Div(a, b) == Mul(a, Recip(b))

Add(a, b) ==
    IF IsNaN(a) \/ IsNaN(b) THEN NaN
    ELSE IF a.d = 0 /\ b.d = 0 THEN (IF a.n = b.n THEN a ELSE NaN)
    ELSE IF a.d = 0 THEN a
    ELSE IF b.d = 0 THEN b
    ELSE Norm(a.n * b.d + b.n * a.d, a.d * b.d)

Neg(a) == [t |-> "num", n |-> -a.n, d |-> a.d]

Sub(a, b) == Add(a, Neg(b))

Lt(a, b) ==
    IF IsNaN(a) \/ IsNaN(b) THEN FALSE
    ELSE IF a.d = 0 /\ b.d = 0 THEN a.n < b.n
    ELSE a.n * b.d < b.n * a.d

Gt(a, b) == Lt(b, a)

StrictEq(a, b) == ~IsNaN(a) /\ ~IsNaN(b) /\ a = b

Le(a, b) == Lt(a, b) \/ StrictEq(a, b)

Ge(a, b) == Le(b, a)

----------------------------------------------------------------------------
(* Strategy graph: blocks, connections, and the maps runBacktest builds *)

\* Ids of the blocks of a strategy, in declaration order.
BlockIds == <<"b1", "b2", "b3", "b4">>

\* parseFloat(block.data.value) when the literal is present, undefined when it
\* is absent or does not parse to a number (NaN).
ParseLiteral(v) == IF v.t = "num" /\ ~IsNaN(v) THEN v ELSE Undefined

\* ParsePeriod taking the default whatever the block says.
ParsePeriod_AlwaysDefault(p, dflt) == [nan |-> FALSE, v |-> dflt]

\* A period parameter is absent, a number or a string holding a number.
\* (block.data?.period || dflt): absent and the number 0 are falsy.
ParsePeriod(p, dflt) ==
    IF p.k = "absent" \/ (p.k = "num" /\ p.v = 0) THEN [nan |-> FALSE, v |-> dflt]
    ELSE IF p.k = "bad" THEN [nan |-> TRUE, v |-> 0]
    ELSE [nan |-> FALSE, v |-> p.v]

\* blocksById.has(id) and blocksById.get(id).
HasBlock(id) == \E k \in 1..Len(strategy.blocks) : strategy.blocks[k].id = id

blocksById(id) == strategy.blocks[CHOOSE k \in 1..Len(strategy.blocks) : strategy.blocks[k].id = id]

\* graph.has(id) and graph.get(id): the connections leaving id, in order.
GraphHas(id) == \E k \in 1..Len(strategy.connections) : strategy.connections[k].source = id

GraphGet(id) == SelectSeq(strategy.connections, LAMBDA c : c.source = id)

\* Keys of the graph Map in insertion order (first appearance as a source).
RECURSIVE GraphKeys(_, _)
GraphKeys(conns, seen) ==
    IF conns = << >> THEN << >>
    ELSE IF Head(conns).source \in seen THEN GraphKeys(Tail(conns), seen)
    ELSE <<Head(conns).source>> \o GraphKeys(Tail(conns), seen \cup {Head(conns).source})

\* All connections in the order graph.entries() yields them.
RECURSIVE GraphEntries(_)
GraphEntries(keys) ==
    IF keys = << >> THEN << >>
    ELSE GraphGet(Head(keys)) \o GraphEntries(Tail(keys))

\* The connections whose target is id, in the order the comparison case meets them.
Incoming(id) ==
    SelectSeq(GraphEntries(GraphKeys(strategy.connections, {})), LAMBDA c : c.target = id)

----------------------------------------------------------------------------
(* Indicator helpers *)

AbsNum(a) == [t |-> "num", n |-> Abs(a.n), d |-> a.d]

RECURSIVE SumSeq(_)
SumSeq(s) == IF s = << >> THEN Num(0) ELSE Add(Head(s), SumSeq(Tail(s)))

Min(a, b) == IF a < b THEN a ELSE b

Max(a, b) == IF a > b THEN a ELSE b

\* values.slice(-period) for period >= 1
LastN(s, n) == SubSeq(s, Max(1, Len(s) - n + 1), Len(s))

calculateMA(values, period) ==
    IF Len(values) = 0 THEN Num(0)
    ELSE Div(SumSeq(LastN(values, period)), Num(Min(period, Len(values))))

Closes(idx) == [k \in 1..idx |-> marketData[k].close]

\* Math.sqrt on the non-negative rationals: exact where the root is rational,
\* rounded down to a multiple of 1/d elsewhere.
ISqrt(n) == CHOOSE k \in 0..n : k * k <= n /\ (k + 1) * (k + 1) > n

Sqrt(v) ==
    IF IsNaN(v) \/ v.n < 0 THEN NaN
    ELSE IF v.d = 0 THEN v
    ELSE Norm(ISqrt(v.n * v.d), v.d)

calculateStdDev(values) ==
    IF Len(values) = 0 THEN Num(0)
    ELSE LET mean == Div(SumSeq(values), Num(Len(values)))
             squareDiffs == [k \in 1..Len(values) |->
                                Mul(Sub(values[k], mean), Sub(values[k], mean))]
         IN  Sqrt(Div(SumSeq(squareDiffs), Num(Len(squareDiffs))))

\* 0.0001, the divisor calculateRSI takes when there was no loss
NoLossDivisor == Norm(1, 10000)

\* The loop of calculateRSI over the period changes of the close that end at
\* currentIndex; currentIndex counts bars from 0, so bar k of the series is
\* marketData[k - 1] of the code.
RsiChanges(data, currentIndex, period) ==
    [k \in 1..period |-> Sub(data[currentIndex - period + k + 1].close,
                             data[currentIndex - period + k].close)]

gains(data, currentIndex, period) ==
    LET change == RsiChanges(data, currentIndex, period)
    IN  SumSeq([k \in 1..period |-> IF Gt(change[k], Num(0)) THEN change[k] ELSE Num(0)])

losses(data, currentIndex, period) ==
    LET change == RsiChanges(data, currentIndex, period)
    IN  SumSeq([k \in 1..period |->
                   IF Gt(change[k], Num(0)) THEN Num(0) ELSE AbsNum(change[k])])

avgGain(data, currentIndex, period) == Div(gains(data, currentIndex, period), Num(period))

\* avgLoss without the replacement of a zero by 0.0001.
avgLoss_Unguarded(data, currentIndex, period) ==
    Div(losses(data, currentIndex, period), Num(period))

\* losses / period || 0.0001
avgLoss(data, currentIndex, period) ==
    IF Truthy(Div(losses(data, currentIndex, period), Num(period)))
    THEN Div(losses(data, currentIndex, period), Num(period))
    ELSE NoLossDivisor

rs(data, currentIndex, period) ==
    Div(avgGain(data, currentIndex, period), avgLoss(data, currentIndex, period))

calculateRSI(data, currentIndex, period) ==
    IF currentIndex < period THEN Num(50)
    ELSE Sub(Num(100), Div(Num(100), Add(Num(1), rs(data, currentIndex, period))))

----------------------------------------------------------------------------
(* evaluateBlock *)

MaDefaultPeriod == 20

RsiDefaultPeriod == 14

BbDefaultPeriod == 20

\* parseFloat(block.data?.stdDev || '2') of a block that sets no stdDev
BbStdDevMultiplier == 2

CacheSet(cache, key, v) ==
    [x \in (DOMAIN cache) \cup {key} |-> IF x = key THEN v ELSE cache[x]]

\* 0.00001, the tolerance of equal_to
Epsilon == Norm(1, 100000)

\* block.data?.comparisonType || 'greater_than': an absent operator is '>'.
Compare(op, v1, v2) ==
    CASE op \in {"greater_than", ""} -> Gt(v1, v2)
      [] op = "less_than" -> Lt(v1, v2)
      [] op = "equal_to" -> Lt(AbsNum(Sub(v1, v2)), Epsilon)
      [] op = "greater_than_or_equal" -> Ge(v1, v2)
      [] op = "less_than_or_equal" -> Le(v1, v2)
      [] OTHER -> FALSE

\* A catch clause that answers true for every kind.
Fallback_SignalsTrue(type, idx) == Bool(TRUE)

\* The catch clause: the fallback of a block kind.
Fallback(type, idx) ==
    IF type \in {"moving_average", "bollinger_bands", "price"} THEN marketData[idx].close
    ELSE IF type = "rsi" THEN Num(50)
    ELSE Bool(FALSE)

PriceField(bar, field) ==
    CASE field = "open" -> bar.open
      [] field = "high" -> bar.high
      [] field = "low" -> bar.low
      [] OTHER -> bar.close

RECURSIVE evaluateBlock(_, _, _, _, _)
RECURSIVE EvalTargets(_, _, _, _, _, _)
RECURSIVE EvalSources(_, _, _, _, _, _, _, _)

\* Loop of the entry_condition / exit_condition case over graph.get(blockId).
EvalTargets(conns, k, idx, cache, log, depth) ==
    IF k > Len(conns)
    THEN [val |-> Bool(FALSE), cache |-> cache, log |-> log, thrown |-> FALSE]
    ELSE IF ~HasBlock(conns[k].target)
    THEN EvalTargets(conns, k + 1, idx, cache, log, depth)
    ELSE LET r == evaluateBlock(blocksById(conns[k].target), idx, cache, log, depth + 1)
         IN  IF r.thrown THEN r
             ELSE IF IsTrue(r.val)
             THEN [val |-> Bool(TRUE), cache |-> r.cache, log |-> r.log, thrown |-> FALSE]
             ELSE EvalTargets(conns, k + 1, idx, r.cache, r.log, depth)

\* The loop over incoming connections passing on a result of any type.
EvalSources_KeepsNonNumbers(conns, k, v1, v2, idx, cache, log, depth) ==
    IF k > Len(conns)
    THEN [v1 |-> v1, v2 |-> v2, cache |-> cache, log |-> log, thrown |-> FALSE]
    ELSE IF ~HasBlock(conns[k].source)
    THEN EvalSources(conns, k + 1, v1, v2, idx, cache, log, depth)
    ELSE LET r == evaluateBlock(blocksById(conns[k].source), idx, cache, log, depth + 1)
             nv == r.val
         IN  IF r.thrown
             THEN [v1 |-> v1, v2 |-> v2, cache |-> r.cache, log |-> r.log, thrown |-> TRUE]
             ELSE EvalSources(conns, k + 1,
                              IF conns[k].targetHandle = "input1" THEN nv ELSE v1,
                              IF conns[k].targetHandle = "input1" THEN v2
                              ELSE IF conns[k].targetHandle = "input2" THEN nv ELSE v2,
                              idx, r.cache, r.log, depth)

\* The loop over incoming connections with the two input ports exchanged.
EvalSources_SwapsPorts(conns, k, v1, v2, idx, cache, log, depth) ==
    IF k > Len(conns)
    THEN [v1 |-> v1, v2 |-> v2, cache |-> cache, log |-> log, thrown |-> FALSE]
    ELSE IF ~HasBlock(conns[k].source)
    THEN EvalSources(conns, k + 1, v1, v2, idx, cache, log, depth)
    ELSE LET r == evaluateBlock(blocksById(conns[k].source), idx, cache, log, depth + 1)
             nv == IF IsNumber(r.val) THEN r.val ELSE Undefined
         IN  IF r.thrown
             THEN [v1 |-> v1, v2 |-> v2, cache |-> r.cache, log |-> r.log, thrown |-> TRUE]
             ELSE EvalSources(conns, k + 1,
                              IF conns[k].targetHandle = "input2" THEN nv ELSE v1,
                              IF conns[k].targetHandle = "input2" THEN v2
                              ELSE IF conns[k].targetHandle = "input1" THEN nv ELSE v2,
                              idx, r.cache, r.log, depth)

\* Loop of the comparison case over the connections that target blockId.
EvalSources(conns, k, v1, v2, idx, cache, log, depth) ==
    IF k > Len(conns)
    THEN [v1 |-> v1, v2 |-> v2, cache |-> cache, log |-> log, thrown |-> FALSE]
    ELSE IF ~HasBlock(conns[k].source)
    THEN EvalSources(conns, k + 1, v1, v2, idx, cache, log, depth)
    ELSE LET r == evaluateBlock(blocksById(conns[k].source), idx, cache, log, depth + 1)
             nv == IF IsNumber(r.val) THEN r.val ELSE Undefined
         IN  IF r.thrown
             THEN [v1 |-> v1, v2 |-> v2, cache |-> r.cache, log |-> r.log, thrown |-> TRUE]
             ELSE EvalSources(conns, k + 1,
                              IF conns[k].targetHandle = "input1" THEN nv ELSE v1,
                              IF conns[k].targetHandle = "input1" THEN v2
                              ELSE IF conns[k].targetHandle = "input2" THEN nv ELSE v2,
                              idx, r.cache, r.log, depth)

\* Lines 381-405: the operator applied to the operands s found, or false
\* when one is missing.
Compared(block, s) ==
    [val |-> IF s.v1 # Undefined /\ s.v2 # Undefined
             THEN Bool(Compare(block.comparisonType, s.v1, s.v2))
             ELSE Bool(FALSE),
     cache |-> s.cache, log |-> s.log, thrown |-> s.thrown]

\* The switch on blockType inside the try block.
ComputeBlock(block, idx, cache, log, depth) ==
    CASE block.type \in {"entry_condition", "exit_condition"} ->
           IF GraphHas(block.id)
           THEN EvalTargets(GraphGet(block.id), 1, idx, cache, log, depth)
           ELSE [val |-> Bool(FALSE), cache |-> cache, log |-> log, thrown |-> FALSE]
      [] block.type = "comparison" ->
           LET l1 == ParseLiteral(block.value1)
               l2 == ParseLiteral(block.value2)
           IN  Compared(block,
                        IF l1 # Undefined /\ l2 # Undefined
                        THEN [v1 |-> l1, v2 |-> l2, cache |-> cache, log |-> log,
                              thrown |-> FALSE]
                        ELSE EvalSources(Incoming(block.id), 1, l1, l2, idx, cache, log,
                                         depth))
      [] block.type = "moving_average" ->
           LET p == ParsePeriod(block.period, MaDefaultPeriod)
           IN  [val |-> IF p.nan \/ p.v <= 0 THEN marketData[idx].close
                        ELSE calculateMA(Closes(idx), p.v),
                cache |-> cache, log |-> log, thrown |-> FALSE]
      [] block.type = "rsi" ->
           LET p == ParsePeriod(block.period, RsiDefaultPeriod)
           IN  [val |-> IF p.nan \/ p.v <= 0 THEN Num(50)
                        ELSE calculateRSI(marketData, idx - 1, p.v),
                cache |-> cache, log |-> log, thrown |-> FALSE]
      [] block.type = "bollinger_bands" ->
           LET p == ParsePeriod(block.period, BbDefaultPeriod)
               prices == Closes(idx)
               ma == calculateMA(prices, p.v)
               stdDev == calculateStdDev(LastN(prices, p.v))
               band == Mul(Num(BbStdDevMultiplier), stdDev)
           IN  [val |-> IF p.nan \/ p.v <= 0 THEN marketData[idx].close
                        ELSE IF Len(prices) >= p.v
                        THEN CASE block.outputType = "upper" -> Add(ma, band)
                               [] block.outputType = "lower" -> Sub(ma, band)
                               [] OTHER -> ma
                        ELSE marketData[idx].close,
                cache |-> cache, log |-> log, thrown |-> FALSE]
      [] block.type = "price" ->
           [val |-> PriceField(marketData[idx], block.priceType),
            cache |-> cache, log |-> log, thrown |-> FALSE]
      [] OTHER ->
           [val |-> Bool(FALSE), cache |-> cache, log |-> log, thrown |-> FALSE]

\* Lines 488-502: r is how the try block ended; a throw is replaced by the
\* kind's fallback, and the value is cached, logged and returned.
Returned(block, idx, depth, r) ==
    LET v == IF r.thrown THEN Fallback(block.type, idx) ELSE r.val
    IN  [val |-> v,
         cache |-> CacheSet(r.cache, <<block.id, idx>>, v),
         log |-> Append(r.log, [id |-> block.id, type |-> block.type, depth |-> depth,
                                computed |-> TRUE, val |-> v]),
         thrown |-> FALSE]

\* evaluateBlock(block, context, blocksById, graph, cache) at bar idx.  depth is
\* the number of evaluateBlock frames on the call stack; a call beyond MaxStack
\* raises RangeError, which the try/catch of the calling frame intercepts.
\* Every request that returns is logged with the block's id and kind, the
\* value it returned and whether the kind-specific computation ran (computed)
\* or the cache answered.
evaluateBlock(block, idx, cache, log, depth) ==
    IF depth > MaxStack
    THEN [val |-> Undefined, cache |-> cache, log |-> log, thrown |-> TRUE]
    ELSE IF block.id = "" \/ block.type = ""
    THEN [val |-> Bool(FALSE), cache |-> cache, log |-> log, thrown |-> FALSE]
    ELSE IF <<block.id, idx>> \in DOMAIN cache
    THEN [val |-> cache[<<block.id, idx>>], cache |-> cache,
          log |-> Append(log, [id |-> block.id, type |-> block.type, depth |-> depth,
                               computed |-> FALSE, val |-> cache[<<block.id, idx>>]]),
          thrown |-> FALSE]
    ELSE Returned(block, idx, depth, ComputeBlock(block, idx, cache, log, depth))

----------------------------------------------------------------------------
(* Inputs of a run *)

NoPeriod == [k |-> "absent", v |-> 0]

Block(type, purpose, cmp, v1, v2, period, priceType) ==
    [type |-> type, purpose |-> purpose, comparisonType |-> cmp,
     value1 |-> v1, value2 |-> v2, period |-> period, priceType |-> priceType,
     outputType |-> ""]

Literal(op, a, b, purpose) == Block("comparison", purpose, op, Num(a), Num(b), NoPeriod, "")

\* Block shapes of strategies without connections.
PlainShapes ==
    { Literal("greater_than", 1, 0, "entry"),
      Literal("greater_than", 1, 0, "exit"),
      Literal("less_than", 1, 0, ""),
      Block("exit_condition", "", "", Undefined, Undefined, NoPeriod, "") }

WithIds(shapes) ==
    [k \in 1..Len(shapes) |->
        [id |-> BlockIds[k], type |-> shapes[k].type, purpose |-> shapes[k].purpose,
         comparisonType |-> shapes[k].comparisonType, value1 |-> shapes[k].value1,
         value2 |-> shapes[k].value2, period |-> shapes[k].period,
         priceType |-> shapes[k].priceType, outputType |-> shapes[k].outputType]]

SeqsUpTo(S, n) == UNION {[1..m -> S] : m \in 0..n}

PlainStrategies ==
    {[blocks |-> WithIds(b), connections |-> << >>] : b \in SeqsUpTo(PlainShapes, MaxBlocks)}

\* Input ports of a comparison block.
Handles == {"input1", "input2"}

\* Block shapes of strategies with connections.
WiredShapes ==
    { Block("price", "", "", Undefined, Undefined, NoPeriod, "close"),
      Block("comparison", "", "greater_than_or_equal", Undefined, Undefined, NoPeriod, ""),
      Literal("greater_than", 1, 0, ""),
      Block("entry_condition", "", "", Undefined, Undefined, NoPeriod, ""),
      Block("exit_condition", "", "", Undefined, Undefined, NoPeriod, "") }

\* Ids the connections run between: those of the first two blocks.
WiredIds == {"b1", "b2"}

Edges == [source : WiredIds, target : WiredIds, targetHandle : Handles]

\* Up to one connection per input port of a comparison, between any two of
\* WiredIds; an id beyond the strategy's blocks is a dangling end.
WiredStrategies ==
    {[blocks |-> WithIds(b), connections |-> c] :
        b \in SeqsUpTo(WiredShapes, MaxBlocks),
        c \in SeqsUpTo(Edges, Cardinality(Handles))}

\* Prices the data provider may return; it does not filter zero prices.
Prices == {0, 5, 7}

WiredPrices == {5, 7}

PriceTypes == {"open", "high", "low", "close"}

InitialCapitals == {100}

\* A daily series built from its closes: each bar opens at the previous close.
Bars(closes) ==
    [k \in 1..Len(closes) |->
        LET o == IF k = 1 THEN closes[1] ELSE closes[k - 1]
            c == closes[k]
        IN  [date |-> k, open |-> Num(o), high |-> Num(Max(o, c)),
             low |-> Num(Min(o, c)), close |-> Num(c)]]

Series(P, n) == {Bars(c) : c \in SeqsUpTo(P, n)}

WiredSeries == Series(WiredPrices, Cardinality(WiredPrices))

----------------------------------------------------------------------------
(* runBacktest *)

IsTerminal(b) == ~GraphHas(b.id)

\* entryBlocks filter
IsEntryPoint(b) ==
    \/ b.type = "entry_condition"
    \/ b.type = "comparison" /\ IsTerminal(b) /\ b.purpose # "exit"

\* The exitBlocks filter without the isAlsoEntryPoint test of line 145.
IsExitPoint_IgnoresEntryPoints(b) ==
    \/ b.type = "exit_condition"
    \/ b.type = "comparison" /\ IsTerminal(b) /\ b.purpose # "entry"

\* exitBlocks filter
IsExitPoint(b) ==
    \/ b.type = "exit_condition"
    \/ b.type = "comparison" /\ IsTerminal(b) /\ b.purpose # "entry" /\ ~IsEntryPoint(b)

FallbackTypes == {"moving_average", "price", "rsi", "bollinger_bands"}

dummyEntryBlock ==
    [id |-> "default-entry", type |-> "price", purpose |-> "", comparisonType |-> "",
     value1 |-> Undefined, value2 |-> Undefined, period |-> NoPeriod, priceType |-> "",
     outputType |-> ""]

\* The resolver taking every indicator block as fallback, not the first.
ResolveEntryBlocks_AllIndicators ==
    LET found == SelectSeq(strategy.blocks, IsEntryPoint)
        ind   == SelectSeq(strategy.blocks, LAMBDA b : b.type \in FallbackTypes)
    IN  IF found # << >> THEN found
        ELSE IF ind # << >> THEN ind
        ELSE <<dummyEntryBlock>>

ResolveEntryBlocks ==
    LET found == SelectSeq(strategy.blocks, IsEntryPoint)
        ind   == SelectSeq(strategy.blocks, LAMBDA b : b.type \in FallbackTypes)
    IN  IF found # << >> THEN found
        ELSE IF ind # << >> THEN <<Head(ind)>>
        ELSE <<dummyEntryBlock>>

ResolveExitBlocks == SelectSeq(strategy.blocks, IsExitPoint)

\* Strategies of one block whose client-chosen id is the id runBacktest gives
\* to the entry block it synthesizes.
ReservedIdStrategies ==
    {[blocks |-> <<[WithIds(<<b>>)[1] EXCEPT !.id = dummyEntryBlock.id]>>,
      connections |-> << >>] : b \in PlainShapes}

Period(n) == [k |-> "num", v |-> n]

\* The moving-average crossover strategy: a fast and a slow average of the
\* close feed a '>' comparison serving as entry and a '<' comparison serving
\* as exit.
CrossoverStrategy ==
    [blocks |-> WithIds(<<
        Block("moving_average", "", "", Undefined, Undefined, Period(5), ""),
        Block("moving_average", "", "", Undefined, Undefined, Period(20), ""),
        Block("comparison", "entry", "greater_than", Undefined, Undefined, NoPeriod, ""),
        Block("comparison", "exit", "less_than", Undefined, Undefined, NoPeriod, "")>>),
     connections |-> <<
        [source |-> "b1", target |-> "b3", targetHandle |-> "input1"],
        [source |-> "b2", target |-> "b3", targetHandle |-> "input2"],
        [source |-> "b1", target |-> "b4", targetHandle |-> "input1"],
        [source |-> "b2", target |-> "b4", targetHandle |-> "input2"]>>]

\* Series of 40 bars whose closes rise strictly from 100 to 140 through
\* whole prices: all of 100..140 but one.
RisingSeries ==
    {Bars([k \in 1..40 |-> IF 99 + k < skipped THEN 99 + k ELSE 100 + k]) :
        skipped \in 101..139}

PeriodStr(n) == [k |-> "str", v |-> n]

BadPeriod == [k |-> "bad", v |-> 0]

\* Period parameters a client may store: none, the number 0, the strings
\* "0" and "-1", a string holding no number, and the number 2.
IndicatorPeriods == {NoPeriod, Period(0), PeriodStr(0), PeriodStr(-1), BadPeriod, Period(2)}

\* Indicator blocks, and a block of a kind evaluateBlock does not know.
IndicatorShapes ==
    {Block(t, "", "", Undefined, Undefined, p, "") :
        t \in {"moving_average", "rsi", "bollinger_bands"}, p \in IndicatorPeriods}
    \cup {[Block("bollinger_bands", "", "", Undefined, Undefined, Period(2), "")
              EXCEPT !.outputType = o] : o \in {"upper", "lower"}}
    \cup {Block("market_data", "", "", Undefined, Undefined, NoPeriod, "")}

\* One block feeding the left port of the entry comparison "left < -1".
IndicatorStrategies ==
    {[blocks |-> WithIds(<<b, Block("comparison", "", "less_than", Undefined, Num(-1),
                                    NoPeriod, "")>>),
      connections |-> <<[source |-> "b1", target |-> "b2", targetHandle |-> "input1"]>>] :
        b \in IndicatorShapes}

NoRequest == [symbol |-> "", tokenAddress |-> "", assetType |-> ""]

\* No response has been sent.
NoResponse == [status |-> 0, error |-> ""]

\* No indicator helper has been applied.
NoCall == [fn |-> "none", values |-> << >>, index |-> 0, period |-> 0, outputType |-> "",
           result |-> Undefined]

IdleFetch == [pc |-> "idle", symbol |-> "", tokenAddress |-> "", consulted |-> << >>, bars |-> 0]

\* No request has been made: the stored strategy carries no token address.
ServiceIdle ==
    /\ inMemoryDB = [symbol |-> "", tokenAddress |-> ""]
    /\ API_KEY = FALSE
    /\ req = NoRequest
    /\ fetching = IdleFetch
    /\ responses = << >>
    /\ res = NoResponse

Init ==
    /\ pc = "start"
    /\ \/ /\ strategy \in PlainStrategies \cup ReservedIdStrategies
          /\ marketData \in Series(Prices, MaxBars)
          /\ options \in [initialCapital : {Num(c) : c \in InitialCapitals},
                          usePriceType : IF Len(strategy.blocks) <= 1 THEN PriceTypes
                                         ELSE {"close"}]
       \/ /\ strategy \in WiredStrategies
          /\ marketData \in WiredSeries
          /\ options \in [initialCapital : {Num(c) : c \in InitialCapitals},
                          usePriceType : {"close"}]
       \/ /\ strategy \in IndicatorStrategies
          /\ marketData \in Series(Prices, MaxBars)
          /\ options \in [initialCapital : {Num(c) : c \in InitialCapitals},
                          usePriceType : {"close"}]
       \/ /\ strategy = CrossoverStrategy
          /\ marketData \in RisingSeries
          /\ options = [initialCapital |-> Num(10000), usePriceType |-> "close"]
    /\ entryBlocks = << >>
    /\ exitBlocks = << >>
    /\ i = 0
    /\ context = [currentIndex |-> 0, position |-> Num(0), capital |-> Num(0)]
    /\ indicatorCache = << >>
    /\ capital = Num(0)
    /\ position = Num(0)
    /\ buyPrice = Num(0)
    /\ trades = << >>
    /\ evalLog = << >>
    /\ result = [status |-> "none"]
    /\ ServiceIdle
    /\ call = NoCall

\* Lines 36-55: the fetch failed or returned no bar; runBacktest throws.
NoData ==
    /\ pc = "start"
    /\ Len(marketData) = 0
    /\ pc' = "error"
    /\ result' = [status |-> "error"]
    /\ UNCHANGED <<strategy, marketData, options, entryBlocks, exitBlocks, i, context,
                   indicatorCache, capital, position, buyPrice, trades, evalLog>>
    /\ UNCHANGED <<serviceVars, call>>

\* Resolve without the test of line 53 for an empty series.
Resolve_IgnoresEmptySeries ==
    /\ pc = "start"
    /\ capital' = options.initialCapital
    /\ position' = Num(0)
    /\ buyPrice' = Num(0)
    /\ trades' = << >>
    /\ entryBlocks' = ResolveEntryBlocks
    /\ exitBlocks' = ResolveExitBlocks
    /\ i' = 1
    /\ pc' = "loop"
    /\ UNCHANGED <<strategy, marketData, options, context, indicatorCache, evalLog, result>>
    /\ UNCHANGED <<serviceVars, call>>

\* Lines 57-187: initialise the portfolio and resolve entry and exit blocks.
Resolve ==
    /\ pc = "start"
    /\ Len(marketData) > 0
    /\ capital' = options.initialCapital
    /\ position' = Num(0)
    /\ buyPrice' = Num(0)
    /\ trades' = << >>
    /\ entryBlocks' = ResolveEntryBlocks
    /\ exitBlocks' = ResolveExitBlocks
    /\ i' = 1
    /\ pc' = "loop"
    /\ UNCHANGED <<strategy, marketData, options, context, indicatorCache, evalLog, result>>
    /\ UNCHANGED <<serviceVars, call>>

\* ScanCandidates without the break after the first signal.
RECURSIVE ScanCandidates_NoBreak(_, _, _, _, _)
ScanCandidates_NoBreak(cands, k, idx, cache, log) ==
    IF k > Len(cands) THEN [fired |-> FALSE, cache |-> cache, log |-> log]
    ELSE LET r == evaluateBlock(cands[k], idx, cache, log, 1)
             rest == ScanCandidates_NoBreak(cands, k + 1, idx, r.cache, r.log)
         IN  [fired |-> Truthy(r.val) \/ rest.fired, cache |-> rest.cache, log |-> rest.log]

\* Scan of a candidate list (for ... of entryBlocks / exitBlocks): stops at the
\* first candidate whose value is truthy.
RECURSIVE ScanCandidates(_, _, _, _, _)
ScanCandidates(cands, k, idx, cache, log) ==
    IF k > Len(cands) THEN [fired |-> FALSE, cache |-> cache, log |-> log]
    ELSE LET r == evaluateBlock(cands[k], idx, cache, log, 1)
         IN  IF Truthy(r.val) THEN [fired |-> TRUE, cache |-> r.cache, log |-> r.log]
             ELSE ScanCandidates(cands, k + 1, idx, r.cache, r.log)

\* TradePrice reading the close whatever field the caller selected.
TradePrice_AlwaysClose(idx) == marketData[idx].close

\* currentData[usePriceType]
TradePrice(idx) == PriceField(marketData[idx], options.usePriceType)

StopLoss == Norm(95, 100)

TakeProfit == Norm(12, 10)

\* The default rule with the take-profit side left out.
DefaultExit_StopLossOnly(price) == Lt(price, Mul(buyPrice, StopLoss))

\* Line 249: the basic stop-loss (5%) or take-profit (20%) exit.
DefaultExit(price) ==
    \/ Lt(price, Mul(buyPrice, StopLoss))
    \/ Gt(price, Mul(buyPrice, TakeProfit))

Buy(idx) ==
    /\ position' = Div(capital, TradePrice(idx))
    /\ buyPrice' = TradePrice(idx)
    /\ capital' = Num(0)
    /\ trades' = Append(trades, [date |-> marketData[idx].date, action |-> "BUY",
                                 price |-> TradePrice(idx)])

Sell(idx) ==
    /\ capital' = Mul(position, TradePrice(idx))
    /\ position' = Num(0)
    /\ trades' = Append(trades, [date |-> marketData[idx].date, action |-> "SELL",
                                 price |-> TradePrice(idx)])
    /\ UNCHANGED buyPrice

\* A bar without transition that clears the entry price.
Hold_ForgetsEntryPrice ==
    /\ buyPrice' = Num(0)
    /\ UNCHANGED <<capital, position, trades>>

Hold == UNCHANGED <<capital, position, buyPrice, trades>>

\* The test of line 230 always taking the default-rule branch.
HasExitBlocks_Never == FALSE

\* Line 230: exit blocks exist, so the default rule is not consulted.
HasExitBlocks == Len(exitBlocks) > 0

\* Lines 190-260: one iteration of the loop over marketData.  The cache is
\* cleared, the context of the bar is built, then entry or exit is decided.
ProcessBar ==
    /\ pc = "loop"
    /\ i <= Len(marketData)
    /\ context' = [currentIndex |-> i, position |-> position, capital |-> capital]
    /\ IF StrictEq(position, Num(0))
       THEN LET s == ScanCandidates(entryBlocks, 1, i, << >>, << >>)
            IN  /\ evalLog' = s.log
                /\ indicatorCache' = s.cache
                /\ IF s.fired THEN Buy(i) ELSE Hold
       ELSE IF Gt(position, Num(0))
       THEN IF HasExitBlocks
            THEN LET s == ScanCandidates(exitBlocks, 1, i, << >>, << >>)
                 IN  /\ evalLog' = s.log
                     /\ indicatorCache' = s.cache
                     /\ IF s.fired THEN Sell(i) ELSE Hold
            ELSE /\ evalLog' = << >>
                 /\ indicatorCache' = << >>
                 /\ IF DefaultExit(TradePrice(i)) THEN Sell(i) ELSE Hold
       ELSE /\ evalLog' = << >>
            /\ indicatorCache' = << >>
            /\ Hold
    /\ i' = i + 1
    /\ UNCHANGED <<pc, strategy, marketData, options, entryBlocks, exitBlocks, result>>
    /\ UNCHANGED <<serviceVars, call>>

\* Finish without the final exit of lines 262-270.
Finish_SkipsLiquidation ==
    /\ pc = "loop"
    /\ i > Len(marketData)
    /\ Hold
    /\ result' = [status |-> "ok", trades |-> trades, finalCapital |-> capital,
                  totalReturn |-> Mul(Div(Sub(capital, options.initialCapital),
                                          options.initialCapital), Num(100)),
                  usingSimulatedData |-> FALSE]
    /\ pc' = "done"
    /\ UNCHANGED <<strategy, marketData, options, entryBlocks, exitBlocks, i, context,
                   indicatorCache, evalLog>>
    /\ UNCHANGED <<serviceVars, call>>

\* Lines 262-285: the final exit and the result.
Finish ==
    /\ pc = "loop"
    /\ i > Len(marketData)
    /\ IF Gt(position, Num(0)) THEN Sell(Len(marketData)) ELSE Hold
    /\ result' = [status |-> "ok", trades |-> trades', finalCapital |-> capital',
                  totalReturn |-> Mul(Div(Sub(capital', options.initialCapital),
                                          options.initialCapital), Num(100)),
                  usingSimulatedData |-> FALSE]
    /\ pc' = "done"
    /\ UNCHANGED <<strategy, marketData, options, entryBlocks, exitBlocks, i, context,
                   indicatorCache, evalLog>>
    /\ UNCHANGED <<serviceVars, call>>

Next == NoData \/ Resolve \/ ProcessBar \/ Finish

Spec == Init /\ [][Next]_vars

----------------------------------------------------------------------------
(* The request path: backtestController.backtest and fetchHistoricalData.   *)
(* A request runs from its arrival to the first provider call in one step;  *)
(* each provider's answer is a step; the rest of runBacktest on the fetched *)
(* series is Spec above.  fetchHistoricalData has only local state, and the *)
(* requests are served one at a time.                                       *)

Symbols == {"ETH", "AAPL"}

TokenAddresses == {"0xA"}

AssetTypes == {"crypto", "stock"}

\* Bodies of a backtest request; "" is an absent field.
Requests ==
    [symbol : Symbols, tokenAddress : {""} \cup TokenAddresses, assetType : AssetTypes]
        \cup {[symbol |-> "", tokenAddress |-> "", assetType |-> "stock"]}

commonCryptoSymbols ==
    {"BTC", "ETH", "USDT", "USDC", "BNB", "XRP", "ADA", "DOGE", "SOL",
     "DOT", "AVAX", "MATIC", "LTC", "LINK", "ATOM", "UNI", "WBTC", "DAI"}

\* The suffix tests (USDT, USD, BTC, ETH) match the listed ETH and no other
\* member of Symbols.
isCryptoSymbol(symbol) == symbol # "" /\ symbol \in commonCryptoSymbols

\* What a provider call can end in: an exception, a series without bars, or a
\* series with bars.  CryptoCompare and Alpha Vantage throw instead of
\* returning an empty series.
Outcomes(source) ==
    IF source \in {"token", "yahoo"} THEN {"throws", "empty", "bars"}
    ELSE {"throws", "bars"}

SeriesLength(outcome) == IF outcome = "bars" THEN 1 ELSE 0

\* data.length > 0
Yields(outcome) == outcome # "throws" /\ SeriesLength(outcome) > 0

\* Step 3 tried for every symbol that is not crypto, key or no key.
AfterCryptoCompare_IgnoresApiKey(symbol) ==
    IF ~isCryptoSymbol(symbol) THEN "alphavantage" ELSE "yahoo"

\* Steps 3 and 4 of fetchHistoricalData.
AfterCryptoCompare(symbol) ==
    IF API_KEY /\ ~isCryptoSymbol(symbol) THEN "alphavantage" ELSE "yahoo"

\* Step 2.
AfterToken(symbol) ==
    IF isCryptoSymbol(symbol) THEN "cryptocompare" ELSE AfterCryptoCompare(symbol)

\* Step 1.
FirstSource(symbol, tokenAddress) ==
    IF tokenAddress # "" THEN "token" ELSE AfterToken(symbol)

\* Where fetchHistoricalData goes when source did not yield a bar.
NextSource(source, symbol) ==
    CASE source = "token" -> AfterToken(symbol)
      [] source = "cryptocompare" -> AfterCryptoCompare(symbol)
      [] source = "alphavantage" -> "yahoo"
      [] OTHER -> "thrown"

Served(r, f) ==
    [params |-> r, symbol |-> f.symbol, tokenAddress |-> f.tokenAddress,
     first |-> IF f.consulted = << >> THEN "none" ELSE f.consulted[1].source]

\* backtest, lines 18-89, with runBacktest lines 25-46 and the start of
\* fetchHistoricalData: the request is checked, the stored strategy is looked
\* up and written to, and the first provider is called.
Backtest ==
    /\ fetching.pc = "idle"
    /\ Len(responses) < MaxRequests
    /\ \E r \in Requests :
          IF r.symbol = ""
          THEN /\ responses' = Append(responses, Served(r, IdleFetch))
               /\ res' = [status |-> 400, error |-> ""]
               /\ UNCHANGED <<inMemoryDB, req, fetching>>
          ELSE LET stored == [symbol |-> r.symbol,
                              tokenAddress |-> IF r.assetType = "crypto" /\ r.tokenAddress # ""
                                               THEN r.tokenAddress
                                               ELSE inMemoryDB.tokenAddress]
                   address == IF r.tokenAddress # "" THEN r.tokenAddress
                              ELSE stored.tokenAddress
               IN  /\ inMemoryDB' = stored
                   /\ req' = r
                   /\ fetching' = [pc |-> FirstSource(stored.symbol, address),
                                   symbol |-> stored.symbol, tokenAddress |-> address,
                                   consulted |-> << >>, bars |-> 0]
                   /\ res' = NoResponse
                   /\ UNCHANGED responses
    /\ UNCHANGED <<API_KEY, engineVars, call>>

\* The fetch after the awaited call of provider source ended in outcome o:
\* its series is returned when it has a bar, otherwise the next source is tried.
Answered(source, o) ==
    LET log == Append(fetching.consulted, [source |-> source, outcome |-> o])
    IN  IF Yields(o)
        THEN [fetching EXCEPT !.pc = "returned", !.consulted = log,
                              !.bars = SeriesLength(o)]
        ELSE [fetching EXCEPT !.pc = NextSource(source, fetching.symbol),
                              !.consulted = log]

\* Lines 36-49.
TokenLookupDone ==
    /\ fetching.pc = "token"
    /\ \E o \in Outcomes("token") : fetching' = Answered("token", o)
    /\ UNCHANGED <<inMemoryDB, API_KEY, req, responses, res, engineVars, call>>

\* Lines 52-65.
CryptoCompareDone ==
    /\ fetching.pc = "cryptocompare"
    /\ \E o \in Outcomes("cryptocompare") : fetching' = Answered("cryptocompare", o)
    /\ UNCHANGED <<inMemoryDB, API_KEY, req, responses, res, engineVars, call>>

\* Lines 68-81.
AlphaVantageDone ==
    /\ fetching.pc = "alphavantage"
    /\ \E o \in Outcomes("alphavantage") : fetching' = Answered("alphavantage", o)
    /\ UNCHANGED <<inMemoryDB, API_KEY, req, responses, res, engineVars, call>>

\* Lines 84-98.
YahooDone ==
    /\ fetching.pc = "yahoo"
    /\ \E o \in Outcomes("yahoo") : fetching' = Answered("yahoo", o)
    /\ UNCHANGED <<inMemoryDB, API_KEY, req, responses, res, engineVars, call>>

\* Error messages as sequences of words.
\* Line 50 of runBacktest.
FetchFailedMessage(symbol) ==
    <<"Could", "not", "fetch", "real", "market", "data", "for", symbol,
      "Please", "try", "a", "different", "symbol", "or", "time", "range">>

\* Line 54 of runBacktest.
EmptySeriesMessage ==
    <<"No", "real", "market", "data", "available", "for", "the", "specified", "period">>

\* The text the controller looks for in error.message.
NoMarketDataText == <<"No", "market", "data", "available">>

\* String.prototype.includes
Includes(text, part) ==
    \E k \in 0..(Len(text) - Len(part)) : SubSeq(text, k + 1, k + Len(part)) = part

\* What runBacktest throws before the simulation, if anything (<< >>: nothing).
Thrown(f) ==
    IF f.pc = "thrown" THEN FetchFailedMessage(f.symbol)
    ELSE IF f.bars = 0 THEN EmptySeriesMessage
    ELSE << >>

\* The catch clauses of lines 105-121.
CatchError(message) ==
    IF Includes(message, NoMarketDataText)
    THEN [status |-> 400, error |-> "NO_MARKET_DATA"]
    ELSE [status |-> 500, error |-> "Error running backtest"]

\* The fetch returned or threw; runBacktest goes on and the controller answers.
Respond ==
    /\ fetching.pc \in {"returned", "thrown"}
    /\ responses' = Append(responses, Served(req, fetching))
    /\ res' = IF Thrown(fetching) = << >> THEN [status |-> 200, error |-> ""]
              ELSE CatchError(Thrown(fetching))
    /\ fetching' = IdleFetch
    /\ req' = NoRequest
    /\ UNCHANGED <<inMemoryDB, API_KEY, engineVars, call>>

ServiceInit ==
    /\ inMemoryDB = [symbol |-> "", tokenAddress |-> ""]
    /\ API_KEY \in BOOLEAN
    /\ req = NoRequest
    /\ fetching = IdleFetch
    /\ responses = << >>
    /\ res = NoResponse
    /\ call = NoCall
    /\ pc = "idle"
    /\ strategy = [blocks |-> << >>, connections |-> << >>]
    /\ marketData = << >>
    /\ options = [initialCapital |-> Num(0), usePriceType |-> "close"]
    /\ entryBlocks = << >>
    /\ exitBlocks = << >>
    /\ i = 0
    /\ context = [currentIndex |-> 0, position |-> Num(0), capital |-> Num(0)]
    /\ indicatorCache = << >>
    /\ capital = Num(0)
    /\ position = Num(0)
    /\ buyPrice = Num(0)
    /\ trades = << >>
    /\ evalLog = << >>
    /\ result = [status |-> "none"]

ServiceNext ==
    \/ Backtest
    \/ TokenLookupDone
    \/ CryptoCompareDone
    \/ AlphaVantageDone
    \/ YahooDone
    \/ Respond

ServiceSpec == ServiceInit /\ [][ServiceNext]_vars

----------------------------------------------------------------------------
(* The indicator helpers applied to a series *)

\* Periods evaluateBlock passes to the helpers: it passes none below 1.
CallPeriods == 1..MaxBars

BandTypes == {"", "upper", "lower"}

\* calculateRSI(marketData, currentIndex, period) at a bar of the series.
CallRSI ==
    /\ call = NoCall
    /\ \E currentIndex \in 0..(Len(marketData) - 1), period \in CallPeriods :
          call' = [fn |-> "calculateRSI", values |-> Closes(Len(marketData)),
                   index |-> currentIndex, period |-> period, outputType |-> "",
                   result |-> calculateRSI(marketData, currentIndex, period)]
    /\ UNCHANGED <<engineVars, serviceVars>>

\* calculateMA(values, period) on the closes of a prefix of the series, the
\* empty one included.
CallMA ==
    /\ call = NoCall
    /\ \E n \in 0..Len(marketData), period \in CallPeriods :
          call' = [fn |-> "calculateMA", values |-> Closes(n),
                   index |-> n, period |-> period, outputType |-> "",
                   result |-> calculateMA(Closes(n), period)]
    /\ UNCHANGED <<engineVars, serviceVars>>

\* evaluateBlock on a bollinger_bands block at bar idx of the series.
EvaluateBollinger ==
    /\ call = NoCall
    /\ \E idx \in 1..Len(marketData), period \in CallPeriods, band \in BandTypes :
          LET block == [WithIds(<<Block("bollinger_bands", "", "", Undefined, Undefined,
                                        Period(period), "")>>)[1]
                           EXCEPT !.outputType = band]
          IN  call' = [fn |-> "bollinger_bands", values |-> Closes(idx),
                       index |-> idx, period |-> period, outputType |-> band,
                       result |-> evaluateBlock(block, idx, << >>, << >>, 1).val]
    /\ UNCHANGED <<engineVars, serviceVars>>

IndicatorInit ==
    /\ marketData \in Series(Prices, MaxBars)
    /\ call = NoCall
    /\ pc = "idle"
    /\ strategy = [blocks |-> << >>, connections |-> << >>]
    /\ options = [initialCapital |-> Num(0), usePriceType |-> "close"]
    /\ entryBlocks = << >>
    /\ exitBlocks = << >>
    /\ i = 0
    /\ context = [currentIndex |-> 0, position |-> Num(0), capital |-> Num(0)]
    /\ indicatorCache = << >>
    /\ capital = Num(0)
    /\ position = Num(0)
    /\ buyPrice = Num(0)
    /\ trades = << >>
    /\ evalLog = << >>
    /\ result = [status |-> "none"]
    /\ ServiceIdle

IndicatorNext == CallRSI \/ CallMA \/ EvaluateBollinger

IndicatorSpec == IndicatorInit /\ [][IndicatorNext]_vars

----------------------------------------------------------------------------
(* Properties *)

LastBar == Len(marketData)

Running == pc \in {"loop", "done"}

CountOf(ledger, action) == Cardinality({k \in 1..Len(ledger) : ledger[k].action = action})

Prefix(ledger, k) == SubSeq(ledger, 1, k)

IsPositive(v) == Gt(v, Num(0))

\* C1: at every prefix of the trade ledger, after each bar and after the final
\* liquidation, the number of BUY trades minus the number of SELL trades is 0 or 1.
C1_BuyMinusSellIs0or1 ==
    \A k \in 0..Len(trades) :
        CountOf(Prefix(trades, k), "BUY") - CountOf(Prefix(trades, k), "SELL") \in {0, 1}

\* C2: between bars and at the end of the run exactly one of capital > 0 and
\* position > 0 holds.
C2_CashXorUnits ==
    Running => (IsPositive(capital) /\ ~IsPositive(position))
               \/ (~IsPositive(capital) /\ IsPositive(position))

\* C3: when runBacktest returns, position is 0, finalCapital is the cash after
\* the forced liquidation, and the ledger does not end with a BUY.
C3_EndsFlat ==
    pc = "done" =>
        /\ StrictEq(position, Num(0))
        /\ result.finalCapital = capital
        /\ (trades # << >> => trades[Len(trades)].action = "SELL")

\* C4: if the portfolio is Long when the processing of the last bar begins, the
\* last entry of the returned ledger is a SELL dated on the last bar at the last
\* bar's trade price.
C4_LongAtLastBarEndsWithSell ==
    (pc = "done" /\ context.currentIndex = LastBar /\ IsPositive(context.position)) =>
        /\ result.trades # << >>
        /\ result.trades[Len(result.trades)] =
              [date |-> marketData[LastBar].date, action |-> "SELL",
               price |-> PriceField(marketData[LastBar], options.usePriceType)]

\* C4 witness: a run that entered its last bar Long, kept the position through
\* the bar, and returned.
C4_Witness ==
    /\ pc = "done"
    /\ context.currentIndex = LastBar
    /\ IsPositive(context.position)
    /\ LastBar >= 2
    /\ Len(result.trades) = 2
    /\ marketData[LastBar].open # marketData[LastBar].close

\* C5: for every bar of a run, the last one included, at most one trade dated
\* on that bar is recorded.
C5_OneTradePerBar ==
    \A a, b \in 1..Len(trades) : a # b => trades[a].date # trades[b].date

\* Requests runBacktest itself made to evaluateBlock during the last bar.
TopLevel(log) == SelectSeq(log, LAMBDA e : e.depth = 1)

BarPending == pc = "loop" /\ i <= Len(marketData)

FieldOfBar(k) == PriceField(marketData[k], options.usePriceType)

TradeAt(k, action) == [date |-> marketData[k].date, action |-> action, price |-> FieldOfBar(k)]

\* The candidates of list cands were requested in order up to the first truthy
\* one, and no other block was requested by the loop.
ScannedInOrder(top, cands) ==
    /\ Len(top) >= 1
    /\ Len(top) <= Len(cands)
    /\ \A j \in 1..Len(top) : top[j].id = cands[j].id /\ top[j].type = cands[j].type
    /\ \A j \in 1..(Len(top) - 1) : ~Truthy(top[j].val)
    /\ ~Truthy(top[Len(top)].val) => Len(top) = Len(cands)

\* C6: on a Flat bar the entry candidates are evaluated in resolver order; the
\* first one that evaluates true buys with position = capital / price and
\* capital = 0 and appends one BUY dated on this bar; no later entry candidate
\* and no exit candidate is evaluated on that bar.
C6_FlatBarEntryScan ==
    [][(BarPending /\ StrictEq(position, Num(0))) =>
        LET top == TopLevel(evalLog')
        IN  /\ ScannedInOrder(top, entryBlocks)
            /\ \A j \in 1..Len(top), x \in 1..Len(exitBlocks) :
                  ~(top[j].id = exitBlocks[x].id /\ top[j].type = exitBlocks[x].type)
            /\ IF Truthy(top[Len(top)].val)
               THEN /\ position' = Div(capital, FieldOfBar(i))
                    /\ capital' = Num(0)
                    /\ trades' = Append(trades, TradeAt(i, "BUY"))
               ELSE UNCHANGED <<capital, position, trades>>]_vars

\* C6 witness: a Flat bar on which the first entry candidate was false and the
\* second one fired the buy.
C6_Witness ==
    /\ pc = "loop"
    /\ i >= 2
    /\ context.currentIndex = i - 1
    /\ StrictEq(context.position, Num(0))
    /\ Len(TopLevel(evalLog)) = 2
    /\ trades # << >>
    /\ trades[Len(trades)] = TradeAt(i - 1, "BUY")
    /\ IsPositive(FieldOfBar(i - 1))
    /\ position = Div(context.capital, FieldOfBar(i - 1))

\* C7: on a Long bar with at least one exit candidate the exit candidates are
\* evaluated in order; the first true one sells (capital = position * price,
\* position = 0, one SELL appended); when none fires the position is kept and
\* the default 5%/20% rule is not applied.
C7_LongBarExitScan ==
    [][(BarPending /\ IsPositive(position) /\ Len(exitBlocks) > 0) =>
        LET top == TopLevel(evalLog')
        IN  /\ ScannedInOrder(top, exitBlocks)
            /\ IF Truthy(top[Len(top)].val)
               THEN /\ capital' = Mul(position, FieldOfBar(i))
                    /\ position' = Num(0)
                    /\ trades' = Append(trades, TradeAt(i, "SELL"))
               ELSE UNCHANGED <<capital, position, trades>>]_vars

\* C7 witness: a Long bar with exit candidates none of which fired, at a price
\* below 95% of the entry price: the position was kept.
C7_Witness ==
    /\ pc = "loop"
    /\ i >= 3
    /\ context.currentIndex = i - 1
    /\ IsPositive(context.position)
    /\ Len(exitBlocks) > 0
    /\ position = context.position
    /\ IsPositive(buyPrice)
    /\ Lt(FieldOfBar(i - 1), Mul(buyPrice, Norm(95, 100)))

\* Price of the most recent BUY of a ledger that holds one.
LastBuyPrice(ledger) ==
    ledger[CHOOSE k \in 1..Len(ledger) :
              /\ ledger[k].action = "BUY"
              /\ \A m \in (k + 1)..Len(ledger) : ledger[m].action # "BUY"].price

\* C8: with no exit candidates, a Long position is liquidated on a bar if and
\* only if the bar's trade price is below 0.95 times or above 1.20 times the
\* price of the most recent BUY; otherwise the position stays open.
C8_DefaultRule ==
    [][(BarPending /\ IsPositive(position) /\ Len(exitBlocks) = 0) =>
        /\ \E k \in 1..Len(trades) : trades[k].action = "BUY"
        /\ LET e == LastBuyPrice(trades)
               p == FieldOfBar(i)
           IN  IF Lt(p, Mul(e, Norm(95, 100))) \/ Gt(p, Mul(e, Norm(120, 100)))
               THEN /\ capital' = Mul(position, p)
                    /\ position' = Num(0)
                    /\ trades' = Append(trades, TradeAt(i, "SELL"))
               ELSE UNCHANGED <<capital, position, trades>>]_vars

\* C8 witness: with no exit candidates, a position bought at a positive price
\* was sold by the take-profit side of the default rule.
C8_Witness ==
    /\ pc = "loop"
    /\ i >= 3
    /\ context.currentIndex = i - 1
    /\ IsPositive(context.position)
    /\ Len(exitBlocks) = 0
    /\ IsPositive(buyPrice)
    /\ trades[Len(trades)] = TradeAt(i - 1, "SELL")
    /\ Gt(FieldOfBar(i - 1), Mul(buyPrice, Norm(120, 100)))

\* C10: within one bar the kind-specific computation of a block runs at most
\* once (the computations number the distinct blocks requested), and every
\* request for the same block returns the same value.
C10_OneComputationPerBlockPerBar ==
    /\ Len(SelectSeq(evalLog, LAMBDA e : e.computed)) =
          Cardinality({evalLog[k].id : k \in 1..Len(evalLog)})
    /\ \A a, b \in 1..Len(evalLog) :
          evalLog[a].id = evalLog[b].id => evalLog[a].val = evalLog[b].val

\* A frame of block X that ran inside another frame of block X: the log is in
\* post-order, so the frames below entry b are the entries before it, back to
\* the previous entry that is not deeper than b.
Reentered(log, a, b) ==
    /\ a < b
    /\ log[a].id = log[b].id
    /\ \A m \in a..(b - 1) : log[m].depth > log[b].depth

\* C11: for any strategy graph, cycles and condition-to-comparison wiring
\* included, the evaluation of a candidate never re-enters a block that is
\* already on the recursion stack.
C11_NoReentryOnStack ==
    \A a, b \in 1..Len(evalLog) : ~Reentered(evalLog, a, b)

\* C12: with an empty price series runBacktest fails before any bar: no result
\* is returned, no trade is recorded and no block is evaluated.
C12_EmptySeriesIsFatal ==
    Len(marketData) = 0 =>
        /\ pc \in {"start", "error"}
        /\ result.status # "ok"
        /\ trades = << >>
        /\ evalLog = << >>
        /\ i = 0

\* C12 witness: a run of a strategy with blocks over an empty series has failed.
C12_Witness ==
    /\ pc = "error"
    /\ result.status = "error"
    /\ Len(marketData) = 0
    /\ Len(strategy.blocks) > 0

Dangling(c) == ~HasBlock(c.source) \/ ~HasBlock(c.target)

\* C13: if a connection names a source or target that is not the id of a
\* block, the run fails before the first bar: no bar is processed, no trade and
\* no result are produced.
C13_DanglingConnectionIsFatal ==
    (\E k \in 1..Len(strategy.connections) : Dangling(strategy.connections[k])) =>
        /\ pc \in {"start", "error"}
        /\ result.status # "ok"
        /\ trades = << >>

\* C14: a run over a graph with zero blocks returns, alongside the result, a
\* warnings list holding at least one warning.
C14_WarningsReturned ==
    (pc = "done" /\ strategy.blocks = << >>) =>
        /\ "warnings" \in DOMAIN result
        /\ Len(result.warnings) >= 1

\* C15: a run over a graph with zero blocks and a non-empty series uses the
\* synthesized default entry block and returns a ledger of at most one trade.
C15_ZeroBlocksAtMostOneTrade ==
    (pc = "done" /\ strategy.blocks = << >>) =>
        /\ entryBlocks = <<dummyEntryBlock>>
        /\ Len(result.trades) <= 1

\* The bar a trade is dated on.
BarOf(trade) == CHOOSE b \in 1..Len(marketData) : marketData[b].date = trade.date

\* C17: every trade of the ledger is priced at the caller-selected field of the
\* bar it is dated on, the entry price kept for the default rule is that field
\* of the entry bar, and the default rule compares that same field of the
\* current bar against it.
C17_SelectedPriceField ==
    /\ [](/\ \A k \in 1..Len(trades) :
               /\ \E b \in 1..Len(marketData) : marketData[b].date = trades[k].date
               /\ trades[k].price = FieldOfBar(BarOf(trades[k]))
          /\ (Running /\ IsPositive(position)) => buyPrice = LastBuyPrice(trades))
    /\ [][(BarPending /\ IsPositive(position) /\ Len(exitBlocks) = 0) =>
            (trades' # trades <=>
                \/ Lt(FieldOfBar(i), Mul(buyPrice, Norm(95, 100)))
                \/ Gt(FieldOfBar(i), Mul(buyPrice, Norm(120, 100))))]_vars

\* C17 witness: a run on the open field bought at an open, and the default rule
\* sold before the last bar at an open that differs from that bar's close.
C17_Witness ==
    /\ pc = "done"
    /\ options.usePriceType = "open"
    /\ Len(exitBlocks) = 0
    /\ Len(trades) >= 2
    /\ IsPositive(trades[1].price)
    /\ trades[2].action = "SELL"
    /\ trades[2].date < LastBar
    /\ trades[2].price = marketData[trades[2].date].open
    /\ marketData[trades[2].date].open # marketData[trades[2].date].close

Member(list, b) == \E k \in 1..Len(list) : list[k] = b

IdsOf(list) == {list[k].id : k \in 1..Len(list)}

\* The classification of each block of the strategy by the resolver.
Classified ==
    \A k \in 1..Len(strategy.blocks) :
        LET b == strategy.blocks[k]
            outgoing == \E c \in 1..Len(strategy.connections) :
                            strategy.connections[c].source = b.id
            inEntry == Member(entryBlocks, b)
            inExit == Member(exitBlocks, b)
        IN  /\ b.type = "entry_condition" => inEntry
            /\ b.type = "exit_condition" => inExit
            /\ (b.type = "comparison" /\ ~outgoing) =>
                  /\ inEntry <=> b.purpose # "exit"
                  /\ inExit <=> (b.purpose # "entry" /\ ~inEntry)
            /\ (b.type = "comparison" /\ outgoing) => (~inEntry /\ ~inExit)
            /\ ~(inEntry /\ inExit)

\* C20 as stated: every entry_condition is an entry candidate and every
\* exit_condition an exit candidate; a comparison without outgoing connections
\* is an entry candidate unless its purpose is 'exit' and an exit candidate
\* only if its purpose is not 'entry' and it is not an entry candidate;
\* comparisons with outgoing connections are neither; no block id is in both
\* the entry list and the exit list.
C20_Resolution ==
    Running => (Classified /\ IdsOf(entryBlocks) \cap IdsOf(exitBlocks) = {})

\* C20 amended: the classification holds for every strategy and no block is in
\* both lists; no id is in both lists provided no block of the strategy carries
\* the id of the synthesized default entry block.
C20_ResolutionAmended ==
    Running =>
        /\ Classified
        /\ ("default-entry" \notin IdsOf(strategy.blocks)) =>
               IdsOf(entryBlocks) \cap IdsOf(exitBlocks) = {}

\* C20 witness: a resolved strategy with a terminal comparison of no purpose
\* among the entry candidates and a terminal comparison of purpose 'exit' among
\* the exit candidates.
C20_Witness ==
    /\ pc = "loop"
    /\ \E a \in 1..Len(entryBlocks) :
          entryBlocks[a].type = "comparison" /\ entryBlocks[a].purpose = ""
    /\ \E x \in 1..Len(exitBlocks) :
          exitBlocks[x].type = "comparison" /\ exitBlocks[x].purpose = "exit"

FastAbove(k) == Gt(calculateMA(Closes(k), 5), calculateMA(Closes(k), 20))

\* C16: the crossover strategy on 40 bars rising from 100 to 140, capital
\* 10000, price field close: the two comparisons are the sole entry and the
\* sole exit candidate, the ledger is one BUY at the first bar where the fast
\* average exceeds the slow one followed by one SELL on the last bar, and
\* finalCapital > 10000.
C16_CrossoverScenario ==
    (pc = "done" /\ strategy = CrossoverStrategy) =>
        /\ IdsOf(entryBlocks) = {"b3"} /\ Len(entryBlocks) = 1
        /\ IdsOf(exitBlocks) = {"b4"} /\ Len(exitBlocks) = 1
        /\ \E k \in 1..LastBar : FastAbove(k)
        /\ LET cross == CHOOSE k \in 1..LastBar :
                            FastAbove(k) /\ \A j \in 1..(k - 1) : ~FastAbove(j)
           IN  result.trades = <<TradeAt(cross, "BUY"), TradeAt(LastBar, "SELL")>>
        /\ Gt(result.finalCapital, Num(10000))

\* C16 witness: a crossover run over 40 rising bars returned after buying on the
\* sixth bar, the first with more closes than the fast period.
C16_Witness ==
    /\ pc = "done"
    /\ strategy = CrossoverStrategy
    /\ LastBar = 40
    /\ marketData[1].close = Num(100)
    /\ marketData[40].close = Num(140)
    /\ Len(result.trades) = 2
    /\ result.trades[1].date = 6

SourceRank(source) ==
    CASE source = "token" -> 1
      [] source = "cryptocompare" -> 2
      [] source = "alphavantage" -> 3
      [] source = "yahoo" -> 4
      [] OTHER -> 5

\* The sources a call with these arguments is to consult, in the documented order.
Applies(source) ==
    CASE source = "token" -> fetching.tokenAddress # ""
      [] source = "cryptocompare" -> fetching.symbol = "ETH"
      [] source = "alphavantage" -> API_KEY /\ fetching.symbol # "ETH"
      [] OTHER -> TRUE

Consulted(source) ==
    \E k \in 1..Len(fetching.consulted) : fetching.consulted[k].source = source

\* C19: fetchHistoricalData consults token lookup (address given),
\* CryptoCompare (crypto symbol), Alpha Vantage (non-crypto symbol, API key
\* set) and Yahoo Finance in that order; a source is consulted only after
\* every earlier applicable source threw or returned no bar; the series of
\* the first source with at least one bar is returned; when none has one the
\* call throws, so no empty series is ever returned.
C19_SourceOrder ==
    LET c == fetching.consulted
        reached == IF fetching.pc \in {"returned", "idle"} THEN 0
                   ELSE SourceRank(fetching.pc)
    IN  /\ \A k \in 1..Len(c) : Applies(c[k].source)
        /\ \A j, k \in 1..Len(c) : j < k => SourceRank(c[j].source) < SourceRank(c[k].source)
        /\ \A k \in 1..(Len(c) - 1) : c[k].outcome \in {"throws", "empty"}
        /\ \A k \in 1..Len(c) :
              \A s \in {"token", "cryptocompare", "alphavantage", "yahoo"} :
                  (Applies(s) /\ SourceRank(s) < SourceRank(c[k].source)) => Consulted(s)
        /\ \A s \in {"token", "cryptocompare", "alphavantage", "yahoo"} :
              (Applies(s) /\ SourceRank(s) < reached) =>
                  (Consulted(s) /\ \A k \in 1..Len(c) : c[k].outcome \in {"throws", "empty"})
        /\ fetching.pc \in {"token", "cryptocompare", "alphavantage", "yahoo"} =>
              (Applies(fetching.pc) /\ ~Consulted(fetching.pc))
        /\ fetching.pc = "returned" =>
              (c # << >> /\ c[Len(c)].outcome = "bars" /\ fetching.bars >= 1)

\* C19 witness: a call with a token address for a crypto symbol returned the
\* Yahoo series after the token lookup returned no bar and CryptoCompare threw.
C19_Witness ==
    /\ fetching.pc = "returned"
    /\ Len(fetching.consulted) = 3
    /\ fetching.consulted[1] = [source |-> "token", outcome |-> "empty"]
    /\ fetching.consulted[2] = [source |-> "cryptocompare", outcome |-> "throws"]
    /\ fetching.consulted[3] = [source |-> "yahoo", outcome |-> "bars"]

----------------------------------------------------------------------------
(* Resolver fallback *)

HasOutgoing(b) ==
    \E c \in 1..Len(strategy.connections) : strategy.connections[c].source = b.id

\* Rules 1-2 for entry candidates and the rule for exit candidates.
ByEntryRule(b) ==
    \/ b.type = "entry_condition"
    \/ b.type = "comparison" /\ ~HasOutgoing(b) /\ b.purpose # "exit"

ByExitRule(b) ==
    \/ b.type = "exit_condition"
    \/ b.type = "comparison" /\ ~HasOutgoing(b) /\ b.purpose # "entry"

IndicatorKinds == {"moving_average", "price", "rsi", "bollinger_bands"}

\* C21: if rules 1-2 give no entry candidate, the entry list is exactly the
\* first block in declaration order of kind moving_average, price, rsi or
\* bollinger_bands, and with no such block exactly one synthesized price block
\* 'default-entry'; the entry list is never empty when the bar loop runs; a
\* non-empty list of rule 1-2 candidates receives no other block, and the exit
\* list holds only strategy blocks chosen by the exit rule.
C21_ResolverFallback ==
    Running =>
        LET blocks == strategy.blocks
            byRule == {k \in 1..Len(blocks) : ByEntryRule(blocks[k])}
            inds   == {k \in 1..Len(blocks) : blocks[k].type \in IndicatorKinds}
        IN  /\ Len(entryBlocks) >= 1
            /\ (byRule = {} /\ inds # {}) =>
                   entryBlocks = <<blocks[CHOOSE k \in inds : \A m \in inds : k <= m]>>
            /\ (byRule = {} /\ inds = {}) =>
                   /\ Len(entryBlocks) = 1
                   /\ entryBlocks[1].id = "default-entry"
                   /\ entryBlocks[1].type = "price"
            /\ byRule # {} =>
                   /\ Len(entryBlocks) = Cardinality(byRule)
                   /\ \A e \in 1..Len(entryBlocks) :
                          \E k \in byRule : entryBlocks[e] = blocks[k]
            /\ \A x \in 1..Len(exitBlocks) :
                   \E k \in 1..Len(blocks) : exitBlocks[x] = blocks[k] /\ ByExitRule(blocks[k])

\* C21 witness: a strategy of two price blocks and no rule 1-2 candidate whose
\* bar loop ran with the first price block as the only entry candidate.
C21_Witness ==
    /\ pc = "loop"
    /\ i >= 2
    /\ Len(strategy.blocks) = 2
    /\ \A k \in 1..2 : strategy.blocks[k].type = "price"
    /\ entryBlocks = <<strategy.blocks[1]>>
    /\ Len(evalLog) >= 1

----------------------------------------------------------------------------
(* Frame condition of the bar loop *)

\* C22: on a bar where the portfolio is Flat and no entry candidate fires, or
\* Long and neither an exit candidate nor (with no exit candidates) the default
\* rule fires, capital, position, buyPrice and the ledger are unchanged; and
\* no step modifies or removes a trade already in the ledger.
C22_FrameCondition ==
    [][/\ Len(trades') >= Len(trades)
       /\ SubSeq(trades', 1, Len(trades)) = trades
       /\ BarPending =>
            LET top   == TopLevel(evalLog')
                fired == \E j \in 1..Len(top) : Truthy(top[j].val)
                p     == FieldOfBar(i)
                defaultFires == \/ Lt(p, Mul(buyPrice, Norm(95, 100)))
                                \/ Gt(p, Mul(buyPrice, Norm(120, 100)))
                flat  == position = Num(0)
                long  == IsPositive(position)
            IN  (\/ flat /\ ~fired
                 \/ long /\ Len(exitBlocks) > 0 /\ ~fired
                 \/ long /\ Len(exitBlocks) = 0 /\ ~defaultFires)
                => UNCHANGED <<capital, position, buyPrice, trades>>]_vars

\* C22 witness: a position bought at a positive price on an earlier bar was
\* kept through a bar on which the default rule did not fire.
C22_Witness ==
    /\ pc = "loop"
    /\ i >= 3
    /\ context.currentIndex = i - 1
    /\ IsPositive(context.position)
    /\ position = context.position
    /\ Len(exitBlocks) = 0
    /\ IsPositive(buyPrice)
    /\ Len(trades) >= 1
    /\ trades[Len(trades)].action = "BUY"
    /\ trades[Len(trades)].date < marketData[i - 1].date

----------------------------------------------------------------------------
(* Comparison blocks *)

\* The block of the strategy a log entry is about.
BlockOf(e) ==
    strategy.blocks[CHOOSE k \in 1..Len(strategy.blocks) :
                        strategy.blocks[k].id = e.id /\ strategy.blocks[k].type = e.type]

IsStrategyBlock(e) ==
    \E k \in 1..Len(strategy.blocks) :
        strategy.blocks[k].id = e.id /\ strategy.blocks[k].type = e.type

\* Entries of the requests made directly by the evaluation logged at x.
Children(x) ==
    {y \in 1..(x - 1) :
        /\ evalLog[y].depth = evalLog[x].depth + 1
        /\ \A z \in y..(x - 1) : evalLog[z].depth > evalLog[x].depth}

\* Computed evaluations of comparison blocks of the strategy on the last bar.
ComparisonsEvaluated ==
    {x \in 1..Len(evalLog) :
        /\ evalLog[x].computed
        /\ evalLog[x].type = "comparison"
        /\ IsStrategyBlock(evalLog[x])}

HasLiteral(v) == v.t = "num" /\ ~IsNaN(v)

\* Blocks with a connection into port h of block b.
Upstream(b, h) ==
    {strategy.connections[c].source : c \in
        {c \in 1..Len(strategy.connections) :
            /\ strategy.connections[c].target = b.id
            /\ strategy.connections[c].targetHandle = h}}

ConnectionsInto(b, h) ==
    Cardinality({c \in 1..Len(strategy.connections) :
                    /\ strategy.connections[c].target = b.id
                    /\ strategy.connections[c].targetHandle = h})

\* Port h of the comparison logged at x has one connection, and the upstream
\* block answered the comparison's request with value v.
Delivered(x, h, v) ==
    /\ ConnectionsInto(BlockOf(evalLog[x]), h) = 1
    /\ \E y \in Children(x) :
          /\ evalLog[y].id \in Upstream(BlockOf(evalLog[x]), h)
          /\ evalLog[y].val = v

Requested(op, left, right) ==
    CASE op = "greater_than" -> Gt(left, right)
      [] op = "less_than" -> Lt(left, right)
      [] op = "equal_to" -> Lt(AbsNum(Sub(left, right)), Norm(1, 100000))
      [] op = "greater_than_or_equal" -> Gt(left, right) \/ left = right
      [] op = "less_than_or_equal" -> Lt(left, right) \/ left = right

Operators ==
    {"greater_than", "less_than", "equal_to", "greater_than_or_equal", "less_than_or_equal"}

\* The values that answered the requests of the evaluation logged at x.
Answers(x) == {evalLog[y].val : y \in Children(x)}

Unavailable(x, h, lit) ==
    \/ ~HasLiteral(lit) /\ ConnectionsInto(BlockOf(evalLog[x]), h) = 0
    \/ \E v \in Answers(x) : ~IsNumber(v) /\ Delivered(x, h, v)

\* C24: a comparison with an unavailable operand evaluates to false on that
\* bar, false is what the bar's cache holds for it, and the run goes on.
C24_MissingOperandIsFalse ==
    \A x \in ComparisonsEvaluated :
        LET b == BlockOf(evalLog[x])
        IN  (Unavailable(x, "input1", b.value1) \/ Unavailable(x, "input2", b.value2)) =>
              /\ evalLog[x].val = Bool(FALSE)
              /\ <<b.id, context.currentIndex>> \in DOMAIN indicatorCache
              /\ indicatorCache[<<b.id, context.currentIndex>>] = Bool(FALSE)
              /\ Running

\* C24 witness: a comparison whose left port is fed by a block that answered
\* with a boolean was evaluated on the second bar or later.
C24_Witness ==
    /\ pc = "loop"
    /\ context.currentIndex >= 2
    /\ \E x \in ComparisonsEvaluated :
          /\ \E v \in Answers(x) : ~IsNumber(v) /\ Delivered(x, "input1", v)
          /\ evalLog[x].val = Bool(FALSE)

----------------------------------------------------------------------------
(* Condition blocks *)

ConditionKinds == {"entry_condition", "exit_condition"}

\* Block b was evaluated on the last bar, and v is the value it ended with.
ValueOnBar(b, v) ==
    \E x \in 1..Len(evalLog) :
        /\ evalLog[x].id = b.id /\ evalLog[x].type = b.type /\ evalLog[x].computed
        /\ evalLog[x].val = v
        /\ \A z \in (x + 1)..Len(evalLog) :
              ~(evalLog[z].id = b.id /\ evalLog[z].type = b.type /\ evalLog[z].computed)

\* Blocks of the strategy at the far end of the connections leaving b.
ConnectedTo(b) ==
    {t \in 1..Len(strategy.blocks) :
        \E c \in 1..Len(strategy.connections) :
            /\ strategy.connections[c].source = b.id
            /\ strategy.connections[c].target = strategy.blocks[t].id}

\* C25: an entry_condition or exit_condition block ends a bar with the value
\* true if and only if some block its connections lead to ends the bar with
\* the boolean true; so it is false without connections, and a connected
\* block that yields a number does not make it true.
C25_ConditionIsOrOfConnected ==
    \A k \in 1..Len(strategy.blocks), v \in {evalLog[x].val : x \in 1..Len(evalLog)} :
        LET b == strategy.blocks[k]
        IN  (b.type \in ConditionKinds /\ ValueOnBar(b, v)) =>
              /\ v \in {Bool(TRUE), Bool(FALSE)}
              /\ v = Bool(TRUE) <=>
                    \E t \in ConnectedTo(b) : ValueOnBar(strategy.blocks[t], Bool(TRUE))

\* C25 witness: an entry_condition connected to a comparison that was true
\* gave the entry signal, and a position was bought at a positive price.
C25_Witness ==
    /\ pc = "loop"
    /\ Len(trades) >= 1
    /\ trades[Len(trades)].action = "BUY"
    /\ IsPositive(trades[Len(trades)].price)
    /\ context.currentIndex = i - 1
    /\ trades[Len(trades)].date = marketData[i - 1].date
    /\ \E k \in 1..Len(strategy.blocks) :
          /\ strategy.blocks[k].type = "entry_condition"
          /\ ValueOnBar(strategy.blocks[k], Bool(TRUE))
          /\ \E t \in ConnectedTo(strategy.blocks[k]) :
                /\ strategy.blocks[t].type = "comparison"
                /\ ValueOnBar(strategy.blocks[t], Bool(TRUE))

----------------------------------------------------------------------------
(* Indicator blocks *)

\* The configured period is a number or numeric string not above 0, or a
\* string holding no number.
InvalidPeriod(p) == p.k = "bad" \/ (p.k \in {"num", "str"} /\ p.v <= 0)

\* C26: a moving_average or bollinger_bands block whose configured period is
\* non-positive (0 included) or non-numeric evaluates to the close of the
\* current bar, and an rsi block with such a period evaluates to 50.
C26_InvalidPeriodFallsBack ==
    \A x \in 1..Len(evalLog) :
        (IsStrategyBlock(evalLog[x]) /\ InvalidPeriod(BlockOf(evalLog[x]).period)) =>
            /\ evalLog[x].type \in {"moving_average", "bollinger_bands"} =>
                  evalLog[x].val = marketData[context.currentIndex].close
            /\ evalLog[x].type = "rsi" => evalLog[x].val = Num(50)

\* C27: calculateRSI returns exactly 50 whenever currentIndex < period, and
\* otherwise divides by no zero (the period, the average loss and 1 + rs are
\* not 0, and the result is finite); calculateMA returns 0 for an empty
\* sequence and otherwise the average of the last min(period, length) values;
\* a bollinger_bands block returns the current close whenever the window
\* holds fewer than period closes.
C27_ShortHistoryFallbacks ==
    /\ call.fn = "calculateRSI" =>
          IF call.index < call.period
          THEN call.result = Num(50)
          ELSE /\ call.period # 0
               /\ avgLoss(marketData, call.index, call.period) # Num(0)
               /\ Add(Num(1), rs(marketData, call.index, call.period)) # Num(0)
               /\ IsNumber(call.result) /\ call.result.d # 0
    /\ call.fn = "calculateMA" =>
          IF Len(call.values) = 0
          THEN call.result = Num(0)
          ELSE LET m == Min(call.period, Len(call.values))
                   last == SubSeq(call.values, Len(call.values) - m + 1, Len(call.values))
               IN  Mul(call.result, Num(m)) = SumSeq(last)
    /\ call.fn = "bollinger_bands" =>
          (Len(call.values) < call.period => call.result = call.values[Len(call.values)])

\* C27 witness: calculateRSI was applied at the second bar or later of a
\* series whose closes differ, with a period above the bar's index, and
\* returned 50.
C27_Witness ==
    /\ call.fn = "calculateRSI"
    /\ call.index >= 1
    /\ call.index < call.period
    /\ call.values[call.index + 1] # call.values[call.index]
    /\ call.result = Num(50)

----------------------------------------------------------------------------
(* Failures inside a block *)

KnownKinds ==
    {"entry_condition", "exit_condition", "comparison", "moving_average", "rsi",
     "bollinger_bands", "price"}

\* Block b asks for the value of another block of the strategy.
AsksOthers(b) ==
    \/ b.type \in ConditionKinds /\ ConnectedTo(b) # {}
    \/ /\ b.type = "comparison"
       /\ ~(HasLiteral(b.value1) /\ HasLiteral(b.value2))
       /\ \E c \in 1..Len(strategy.connections) :
             /\ strategy.connections[c].target = b.id
             /\ \E k \in 1..Len(strategy.blocks) :
                   strategy.blocks[k].id = strategy.connections[c].source

\* The evaluation logged at x ran in the last frame the stack holds and asked
\* for another block: the request raised RangeError inside it.
Raised(x) ==
    /\ evalLog[x].computed
    /\ evalLog[x].depth = MaxStack
    /\ IsStrategyBlock(evalLog[x])
    /\ AsksOthers(BlockOf(evalLog[x]))

KindFallback(type) ==
    IF type \in {"moving_average", "bollinger_bands", "price"}
    THEN marketData[context.currentIndex].close
    ELSE IF type = "rsi" THEN Num(50)
    ELSE Bool(FALSE)

----------------------------------------------------------------------------
(* The returned ledger *)

\* C29: in every returned ledger the trades are in non-decreasing bar order,
\* the actions alternate strictly, starting with BUY, and the ledger has even
\* length.
C29_LedgerShape ==
    pc = "done" =>
        /\ \A k \in 1..(Len(result.trades) - 1) :
              result.trades[k].date <= result.trades[k + 1].date
        /\ \A k \in 1..Len(result.trades) :
              result.trades[k].action = IF k % 2 = 1 THEN "BUY" ELSE "SELL"
        /\ Len(result.trades) % 2 = 0

----------------------------------------------------------------------------
(* The response when there is no market data *)

\* C30: when the provider fails or returns an empty series, the endpoint
\* answers with status 400 and error code NO_MARKET_DATA, not with status 500.
C30_NoMarketDataIs400 ==
    [][(fetching.pc = "thrown" \/ (fetching.pc = "returned" /\ fetching.bars = 0)) =>
          (res'.status = 400 /\ res'.error = "NO_MARKET_DATA")]_vars

====
